---- MODULE Spec2Model ----
(***************************************************************************)
(* The cataloguing and organising pipeline of src/file_cataloger.py:       *)
(* FileCataloger.scan_directory / scan_multiple_volumes build the catalog, *)
(* FileCataloger.organize_files copies or moves the catalogued files.      *)
(*                                                                         *)
(* A path is a record [anchor, parts, name]: anchor "/" is the root of the *)
(* scanned volume, "" marks a path relative to the working directory, and  *)
(* "D:" is the destination volume, which no scan root covers.  parts are   *)
(* the directory components and name the file name (NoName for a           *)
(* directory).  The file system has no symbolic links.                     *)
(*                                                                         *)
(* The module also holds src/descompactar.py, a separate script that walks *)
(* a directory tree and runs the external unarchiver on its archives.      *)
(***************************************************************************)
EXTENDS Integers, Sequences, FiniteSets, TLC

VARIABLES
    files,              \* the regular files on disk: resolved path -> content
    dirs,               \* the directories on disk (resolved paths)
    exclude_paths,      \* self.exclude_paths
    catalog,            \* self.catalog: category -> sequence of file records
    catKeys,            \* the keys of self.catalog, in insertion order
    stats,              \* self.stats
    errors,             \* self.errors
    folders_with_files, \* self.folders_with_files
    operation_stats,    \* self.operation_stats
    lastScan,           \* history: the last scan call, what it visited and added
    lastOrg,            \* history: the last organize_files call and its steps
    count,              \* history: number of calls made so far
    call,               \* history: the last call of categorize_file on its own
    pastas,             \* descompactar: directory -> names of the files in it
    walk,               \* descompactar: where os.walk and the loop over arquivos are
    runs,               \* descompactar: the subprocess.run invocations, in order
    walked              \* history: the (pasta_atual, arquivos) pairs os.walk gave

catalogerVars == <<files, dirs, exclude_paths, catalog, catKeys, stats, errors,
                   folders_with_files, operation_stats, lastScan, lastOrg, count>>
descompactarVars == <<pastas, walk, runs, walked>>
vars == <<catalogerVars, call, descompactarVars>>

----------------------------------------------------------------------------
(* Bounds of the model *)

MaxScans == 1
MaxOrganize == 1
MaxDepthArg == 1

----------------------------------------------------------------------------
(* Paths (pathlib.Path) *)

Sep == "/"
NoName == [stem |-> "", suffix |-> ""]
Cwd == <<>>

Dir(anchor, parts) == [anchor |-> anchor, parts |-> parts, name |-> NoName]
File(anchor, parts, stem, suffix) ==
    [anchor |-> anchor, parts |-> parts, name |-> [stem |-> stem, suffix |-> suffix]]

IsDirPath(p) == p.name = NoName
Parent(p) == [p EXCEPT !.name = NoName]
Join(d, name) == [d EXCEPT !.name = name]
SubDir(d, c) == [d EXCEPT !.parts = @ \o <<c>>]

\* Path.resolve(): a relative path is made absolute against the working directory
Resolve(p) ==
    IF p.anchor = "" THEN [p EXCEPT !.anchor = "/", !.parts = Cwd \o @] ELSE p

IsPrefix(s, t) == Len(s) <= Len(t) /\ SubSeq(t, 1, Len(s)) = s

\* PurePath.relative_to(other) succeeds iff other is the path or an ancestor of it
RelativeTo(p, other) ==
    \/ p = other
    \/ /\ IsDirPath(other)
       /\ p.anchor = other.anchor
       /\ IsPrefix(other.parts, p.parts)

\* str(path) as a sequence of tokens: separators and component names
RECURSIVE JoinSep(_)
JoinSep(parts) ==
    IF parts = <<>> THEN <<>>
    ELSE IF Len(parts) = 1 THEN parts
    ELSE <<Head(parts), Sep>> \o JoinSep(Tail(parts))

Str(d) == (IF d.anchor = "/" THEN <<Sep>> ELSE <<>>) \o JoinSep(d.parts)

\* str.replace(old, '')
RECURSIVE Replace(_, _)
Replace(s, old) ==
    IF old = <<>> \/ Len(s) < Len(old) THEN s
    ELSE IF SubSeq(s, 1, Len(old)) = old
         THEN Replace(SubSeq(s, Len(old) + 1, Len(s)), old)
         ELSE <<Head(s)>> \o Replace(Tail(s), old)

\* str.count(os.sep)
RECURSIVE CountSep(_)
CountSep(s) ==
    IF s = <<>> THEN 0
    ELSE (IF Head(s) = Sep THEN 1 ELSE 0) + CountSep(Tail(s))

\* str.lower(), character by character
UpperCase == "ABCDEFGHIJKLMNOPQRSTUVWXYZ"
LowerCase == "abcdefghijklmnopqrstuvwxyz"

\* the lower-case letter of each upper-case letter
LowerOf ==
    [c \in {SubSeq(UpperCase, i, i) : i \in 1..Len(UpperCase)} |->
        LET i == CHOOSE j \in 1..Len(UpperCase) : SubSeq(UpperCase, j, j) = c
        IN  SubSeq(LowerCase, i, i)]

LowerChar(c) == IF c \in DOMAIN LowerOf THEN LowerOf[c] ELSE c

RECURSIVE Lower(_)
Lower(s) ==
    IF s = "" THEN "" ELSE LowerChar(SubSeq(s, 1, 1)) \o Lower(SubSeq(s, 2, Len(s)))

\* str.endswith(suffix)
EndsWith(s, suffix) ==
    Len(suffix) <= Len(s) /\ SubSeq(s, Len(s) - Len(suffix) + 1, Len(s)) = suffix

RECURSIVE SetToSeq(_)
SetToSeq(S) ==
    IF S = {} THEN <<>>
    ELSE LET x == CHOOSE y \in S : TRUE IN <<x>> \o SetToSeq(S \ {x})

----------------------------------------------------------------------------
(* The categories (FileCataloger.__init__) *)

CategoryOrder == <<"fotos", "ebooks", "documents", "filmes", "musicas", "outros">>
CategoryNames == {CategoryOrder[i] : i \in 1..Len(CategoryOrder)}

categories ==
    [c \in CategoryNames |->
        CASE c = "fotos" ->
               {".jpg", ".jpeg", ".png", ".gif", ".bmp", ".tiff", ".tif", ".webp",
                ".raw", ".cr2", ".nef", ".arw", ".dng", ".heic", ".heif"}
          [] c = "ebooks" ->
               {".pdf", ".epub", ".mobi", ".azw", ".azw3", ".fb2", ".lit", ".pdb",
                ".cbr", ".cbz"}
          [] c = "documents" ->
               {".txt", ".rtf", ".doc", ".docx", ".xls", ".xlsx"}
          [] c = "filmes" ->
               {".mp4", ".avi", ".mkv", ".mov", ".wmv", ".flv", ".webm", ".m4v",
                ".3gp", ".ogv", ".ts", ".m2ts", ".vob", ".iso"}
          [] c = "musicas" ->
               {".mp3", ".flac", ".wav", ".aac", ".ogg", ".wma", ".m4a", ".opus",
                ".ape", ".ac3", ".dts", ".aiff"}
          [] OTHER -> {}]

RECURSIVE FirstCategory(_, _)
FirstCategory(extension, i) ==
    IF i > Len(CategoryOrder) THEN "outros"
    ELSE IF extension \in categories[CategoryOrder[i]] THEN CategoryOrder[i]
    ELSE FirstCategory(extension, i + 1)

CategorizeNoLower(file_path) == FirstCategory(file_path.name.suffix, 1)
categorize_file(file_path) == FirstCategory(Lower(file_path.name.suffix), 1)

----------------------------------------------------------------------------
(* The file system *)

\* st_size of a file with the given content
Size(content) ==
    CASE content = "c1" -> 1
      [] content = "c2" -> 2
      [] content = "c3" -> 4
      [] content = "old" -> 8
      [] OTHER -> 0

Root == Dir("/", <<>>)
DirA == Dir("/", <<"a">>)
DirB == Dir("/", <<"a", "b">>)
Dest == Dir("D:", <<>>)
Flat == Dir("D:", <<"flat">>)

FileA == File("/", <<"a">>, "p", ".jpg")
FileB == File("/", <<"a", "b">>, "p", ".jpg")
FileN == File("/", <<"a", "b">>, "n", ".TXT")
FileOld == File("D:", <<"documents">>, "n", ".TXT")

InitFiles == (FileA :> "c1") @@ (FileB :> "c2") @@ (FileN :> "c3") @@ (FileOld :> "old")
InitDirs == {Root, DirA, DirB, Dest, SubDir(Dest, "documents")}

\* Path.exists(), Path.is_file()
Exists(p) == Resolve(p) \in DOMAIN files \/ Resolve(p) \in dirs
IsFile(p) == Resolve(p) \in DOMAIN files

\* the entries of directory d, named as os.scandir(d) names them
FileEntries(d) ==
    SetToSeq({Join(d, f.name) : f \in {g \in DOMAIN files : Parent(g) = Resolve(d)}})
DirEntries(d) ==
    SetToSeq({SubDir(d, e.parts[Len(e.parts)]) :
                e \in {g \in dirs : /\ g.anchor = Resolve(d).anchor
                                    /\ Len(g.parts) = Len(Resolve(d).parts) + 1
                                    /\ IsPrefix(Resolve(d).parts, g.parts)}})

----------------------------------------------------------------------------
(* The exclusion filter (FileCataloger._is_path_excluded) *)

IsPathExcludedUnresolved(file_path) ==
    \E exclude_path \in exclude_paths : RelativeTo(file_path, exclude_path)

_is_path_excluded(file_path) ==
    /\ exclude_paths # {}
    /\ \E exclude_path \in exclude_paths : RelativeTo(Resolve(file_path), exclude_path)

----------------------------------------------------------------------------
(* Traversal *)

\* level = root.replace(str(directory), '').count(os.sep)
Level(root, directory) == CountSep(Replace(Str(root), Str(directory)))

\* the pruning test of _get_files_with_depth
WalkPrunes(root) == _is_path_excluded(Resolve(root))

\* the depth test of _get_files_with_depth
DepthStops(root, directory, max_depth) == Level(root, directory) >= max_depth

\* os.walk(directory) driven by _get_files_with_depth: the files yielded, and
\* the directories os.walk has listed
RECURSIVE Walk(_, _, _)
RECURSIVE WalkAll(_, _, _)
Walk(root, directory, max_depth) ==
    IF WalkPrunes(root) THEN [yield |-> <<>>, listed |-> {root}]
    ELSE LET below == IF DepthStops(root, directory, max_depth)
                      THEN [yield |-> <<>>, listed |-> {}]
                      ELSE WalkAll(DirEntries(root), directory, max_depth)
         IN  [yield |-> FileEntries(root) \o below.yield,
              listed |-> {root} \cup below.listed]
WalkAll(ds, directory, max_depth) ==
    IF ds = <<>> THEN [yield |-> <<>>, listed |-> {}]
    ELSE LET h == Walk(Head(ds), directory, max_depth)
             t == WalkAll(Tail(ds), directory, max_depth)
         IN  [yield |-> h.yield \o t.yield, listed |-> h.listed \cup t.listed]

_get_files_with_depth(directory, max_depth) == Walk(directory, directory, max_depth)

\* directory.rglob('*'): every entry below directory, files and directories
RECURSIVE Rglob(_)
RECURSIVE RglobAll(_)
Rglob(d) ==
    LET below == RglobAll(DirEntries(d))
    IN  [yield |-> FileEntries(d) \o DirEntries(d) \o below.yield,
         listed |-> {d} \cup below.listed]
RglobAll(ds) ==
    IF ds = <<>> THEN [yield |-> <<>>, listed |-> {}]
    ELSE LET h == Rglob(Head(ds))
             t == RglobAll(Tail(ds))
         IN  [yield |-> h.yield \o t.yield, listed |-> h.listed \cup t.listed]

----------------------------------------------------------------------------
(* The scanner (FileCataloger.scan_directory) *)

NoFilter == "<None>"
NoDepth == <<>>
NoInfo == [ok |-> FALSE]

\* what goes wrong in the environment during one scan: the files whose stat()
\* raises, and the files that cannot be opened for hashing
ScanEnvOk == [statFail |-> {}, hashFail |-> {}]

\* get_file_hash: None when reading fails
get_file_hash(file_path, env) ==
    IF Resolve(file_path) \in env.hashFail THEN "None"
    ELSE "md5:" \o files[Resolve(file_path)]

\* get_file_info: the record, or None with an error logged
get_file_info(file_path, env) ==
    IF Resolve(file_path) \in env.statFail THEN NoInfo
    ELSE [ok |-> TRUE,
          info |-> [path |-> file_path,
                    name |-> file_path.name,
                    size |-> Size(files[Resolve(file_path)]),
                    extension |-> Lower(file_path.name.suffix),
                    parent_dir |-> Parent(file_path),
                    hash |-> "<absent>",
                    category |-> "<absent>"]]

\* target_extensions of scan_directory; isNone stands for None
TargetExtensions(file_type_filter) ==
    IF file_type_filter # NoFilter /\ file_type_filter # ""
       /\ Lower(file_type_filter) \in CategoryNames
    THEN [isNone |-> FALSE, exts |-> categories[Lower(file_type_filter)]]
    ELSE [isNone |-> TRUE, exts |-> {}]

\* "if target_extensions and file_path.suffix.lower() not in target_extensions"
FilterSkips(target_extensions, file_path) ==
    /\ ~target_extensions.isNone
    /\ target_extensions.exts # {}
    /\ Lower(file_path.name.suffix) \notin target_extensions.exts

\* the three counter updates of scan_directory
UpdateStatsNoTotal(st, category, size) ==
    [st EXCEPT ![category] = @ + 1, !["total_size"] = @ + size]
UpdateStats(st, category, size) ==
    [st EXCEPT ![category] = @ + 1,
               !["total_files"] = @ + 1,
               !["total_size"] = @ + size]

\* self.catalog[category].append(file_info) on the defaultdict
CatalogAppend(s, category, file_info) ==
    [s EXCEPT !.catalog[category] = Append(@, file_info),
              !.catKeys = IF \E i \in 1..Len(@) : @[i] = category
                          THEN @ ELSE Append(@, category)]

\* the body of the loop over the files: s is the cataloger's state
ScanFile(s, file_path, include_hash, target_extensions, env) ==
    LET t == [s EXCEPT !.tested = @ \cup {file_path}] IN
    IF ~IsFile(file_path) THEN t
    ELSE IF _is_path_excluded(file_path) THEN t
    ELSE IF FilterSkips(target_extensions, file_path) THEN t
    ELSE LET got == get_file_info(file_path, env) IN
         IF ~got.ok
         THEN [t EXCEPT !.errors = Append(@, "Erro ao acessar")]
         ELSE LET category == categorize_file(file_path)
                  file_info == [got.info EXCEPT
                                  !.hash = IF include_hash
                                           THEN get_file_hash(file_path, env) ELSE @,
                                  !.category = category]
                  u == CatalogAppend(t, category, file_info)
              IN  [u EXCEPT !.folders = @ \cup {Parent(file_path)},
                            !.stats = UpdateStats(@, category, file_info.size),
                            !.added = Append(@, file_info)]

RECURSIVE ScanFiles(_, _, _, _, _)
ScanFiles(s, paths, include_hash, target_extensions, env) ==
    IF paths = <<>> THEN s
    ELSE ScanFiles(ScanFile(s, Head(paths), include_hash, target_extensions, env),
                   Tail(paths), include_hash, target_extensions, env)

\* the files iterated: rglob when max_depth is None, the bounded walk otherwise
FilesToScan(directory, max_depth) ==
    IF max_depth = NoDepth THEN Rglob(directory)
    ELSE _get_files_with_depth(directory, max_depth[1])

\* what one scan_directory call is recorded to have done
VolumeLog(s0, s1, directory, listed) ==
    [directory |-> directory, listed |-> listed, tested |-> s1.tested,
     added |-> s1.added, errs |-> Len(s1.errors) - Len(s0.errors)]

scan_directory(s, directory, include_hash, max_depth, file_type_filter, env) ==
    LET s0 == [s EXCEPT !.tested = {}, !.added = <<>>] IN
    IF ~Exists(directory)
    THEN [s0 EXCEPT !.log = Append(@, VolumeLog(s0, s0, directory, {}))]
    ELSE LET it == FilesToScan(directory, max_depth)
             s1 == ScanFiles(s0, it.yield, include_hash,
                             TargetExtensions(file_type_filter), env)
         IN  [s1 EXCEPT !.log = Append(@, VolumeLog(s0, s1, directory, it.listed))]

RECURSIVE scan_multiple_volumes(_, _, _, _, _, _)
scan_multiple_volumes(s, volume_paths, include_hash, max_depth, file_type_filter, env) ==
    IF volume_paths = <<>> THEN s
    ELSE scan_multiple_volumes(
           scan_directory(s, Head(volume_paths), include_hash, max_depth,
                          file_type_filter, env),
           Tail(volume_paths), include_hash, max_depth, file_type_filter, env)

\* every record of the catalog, in the order of the catalog's keys
RECURSIVE RecordsIn(_, _)
RecordsIn(cat, keys) ==
    IF keys = <<>> THEN <<>> ELSE cat[Head(keys)] \o RecordsIn(cat, Tail(keys))
RecordsOfCatalog == RecordsIn(catalog, catKeys)

\* the cataloger's state as the record the scan operators work on
ScanState ==
    [catalog |-> catalog, catKeys |-> catKeys, stats |-> stats, errors |-> errors,
     folders |-> folders_with_files, tested |-> {}, added |-> <<>>, log |-> <<>>]

----------------------------------------------------------------------------
(* Construction (FileCataloger.__init__) *)

StatKeys == CategoryNames \cup {"total_files", "total_size"}

RelA == Dir("", <<"a">>)
Missing == Dir("/", <<"nope">>)

\* the exclude_paths argument of the constructor, as the caller writes it
ExcludeArgs == { {}, {Dir("", <<"a", "b">>)}, {FileB} }

NoOperationStats ==
    [successful_operations |-> 0, failed_operations |-> 0, skipped_operations |-> 0]

\* no call of categorize_file or of a reporter has been recorded
NoCall == [kind |-> "none"]

\* descompactar_arquivos has not been called
NotWalking == [state |-> "idle", stack |-> <<>>, pasta_atual |-> <<>>, arquivos |-> <<>>]

\* the cataloger as FileCataloger(exclude_paths=arg) leaves it
Constructed(arg) ==
    /\ files = InitFiles
    /\ dirs = InitDirs
    /\ exclude_paths = {Resolve(path) : path \in arg}
    /\ catalog = [c \in CategoryNames |-> <<>>]
    /\ catKeys = <<>>
    /\ stats = [k \in StatKeys |-> 0]
    /\ errors = <<>>
    /\ folders_with_files = {}
    /\ operation_stats = NoOperationStats
    /\ lastScan = [kind |-> "none"]
    /\ lastOrg = [kind |-> "none"]
    /\ count = [scan |-> 0, org |-> 0]

Init ==
    /\ \E arg \in ExcludeArgs : Constructed(arg)
    /\ call = NoCall
    /\ pastas = <<>>
    /\ walk = NotWalking
    /\ runs = <<>>
    /\ walked = <<>>

----------------------------------------------------------------------------
(* The scan calls *)

ScanRoots == {Root, RelA, Missing}
VolumeLists == {<<Root, RelA>>, <<Missing, RelA>>, <<RelA, Root>>}
DepthArgs == {NoDepth} \cup {<<d>> : d \in 0..MaxDepthArg}
ScanFilters == {NoFilter, "FOTOS", "outros"}
\* include_hash with the environment of the call
ScanModes == {[include_hash |-> FALSE, env |-> ScanEnvOk],
              [include_hash |-> TRUE, env |-> ScanEnvOk],
              [include_hash |-> FALSE, env |-> [statFail |-> {FileA}, hashFail |-> {}]],
              [include_hash |-> TRUE, env |-> [statFail |-> {}, hashFail |-> {FileN}]]}

\* the state after a scan call that ended in s
Scanned(s, include_hash, max_depth, file_type_filter, env) ==
    /\ catalog' = s.catalog
    /\ catKeys' = s.catKeys
    /\ stats' = s.stats
    /\ errors' = s.errors
    /\ folders_with_files' = s.folders
    /\ lastScan' = [kind |-> "scan", include_hash |-> include_hash,
                    max_depth |-> max_depth, file_type_filter |-> file_type_filter,
                    env |-> env, log |-> s.log]
    /\ count' = [count EXCEPT !.scan = @ + 1]
    /\ UNCHANGED <<files, dirs, exclude_paths, operation_stats, lastOrg>>
    /\ UNCHANGED <<call, descompactarVars>>

ScanDirectory ==
    /\ count.scan < MaxScans
    /\ \E directory \in ScanRoots, mode \in ScanModes, max_depth \in DepthArgs,
          file_type_filter \in ScanFilters :
         Scanned(scan_directory(ScanState, directory, mode.include_hash, max_depth,
                                file_type_filter, mode.env),
                 mode.include_hash, max_depth, file_type_filter, mode.env)

ScanMultipleVolumes ==
    /\ count.scan < MaxScans
    /\ \E volume_paths \in VolumeLists, mode \in ScanModes,
          max_depth \in DepthArgs, file_type_filter \in ScanFilters :
         Scanned(scan_multiple_volumes(ScanState, volume_paths, mode.include_hash,
                                       max_depth, file_type_filter, mode.env),
                 mode.include_hash, max_depth, file_type_filter, mode.env)

NextScan == ScanDirectory \/ ScanMultipleVolumes

SpecScan == Init /\ [][NextScan]_vars

----------------------------------------------------------------------------
(* The organizer (FileCataloger.organize_files, FileCataloger._process_file) *)

\* what goes wrong in the environment during one organize_files call:
\* the directories mkdir cannot create and the exception it raises, the
\* directories os.access reports as not writable, and the source files whose
\* copy or move raises, with the exception
OrgEnvOk == [mkdirDirs |-> {}, mkdirError |-> "", noWrite |-> {},
             ioFiles |-> {}, ioError |-> ""]

ExistsIn(o, p) == Resolve(p) \in DOMAIN o.files \/ Resolve(p) \in o.dirs

\* the directory and its missing parents (mkdir(parents=True, exist_ok=True))
WithParents(d) ==
    {[d EXCEPT !.parts = SubSeq(d.parts, 1, n)] : n \in 0..Len(d.parts)}

WriteFile(f, p, content) ==
    [x \in DOMAIN f \cup {p} |-> IF x = p THEN content ELSE f[x]]
RemoveFile(f, p) == [x \in DOMAIN f \ {p} |-> f[x]]

\* the message _process_file logs for an exception
ProcessError(kind) ==
    CASE kind = "PermissionError" -> "Erro de permissao ao processar"
      [] kind = "FileNotFoundError" -> "Arquivo nao encontrado"
      [] kind = "ENOSPC" -> "Espaco insuficiente em disco"
      [] kind = "ENAMETOOLONG" -> "Nome de arquivo muito longo"
      [] kind = "OSError" -> "Erro do sistema ao processar"
      [] OTHER -> "Erro inesperado ao processar"

\* shutil.copy2 / shutil.move once the permission checks have passed
RelocateAlwaysCopy(o, src_path, dst_path, copy_files) ==
    [o EXCEPT !.files = WriteFile(@, Resolve(dst_path), o.files[Resolve(src_path)])]
Relocate(o, src_path, dst_path, copy_files) ==
    IF copy_files
    THEN [o EXCEPT !.files = WriteFile(@, Resolve(dst_path), o.files[Resolve(src_path)])]
    ELSE [o EXCEPT !.files = WriteFile(RemoveFile(@, Resolve(src_path)),
                                       Resolve(dst_path), o.files[Resolve(src_path)])]

\* _process_file: the new state and whether the operation succeeded
_process_file(o, src_path, dst_path, copy_files, env) ==
    IF ~copy_files /\ Resolve(Parent(src_path)) \in env.noWrite
    THEN [o |-> [o EXCEPT !.errors =
                    Append(@, "Sem permissao de escrita no diretorio fonte")],
          success |-> FALSE]
    ELSE IF Resolve(Parent(dst_path)) \in env.noWrite
    THEN [o |-> [o EXCEPT !.errors =
                    Append(@, "Sem permissao de escrita no diretorio destino")],
          success |-> FALSE]
    ELSE IF Resolve(src_path) \in env.ioFiles
    THEN [o |-> [o EXCEPT !.errors = Append(@, ProcessError(env.ioError)),
                          !.files = IF env.ioError = "ENOSPC"
                                    THEN WriteFile(@, Resolve(dst_path), "partial")
                                    ELSE @],
          success |-> FALSE]
    ELSE [o |-> Relocate(o, src_path, dst_path, copy_files), success |-> TRUE]

\* the duplicate-name loop: "while dst_path.exists() and not dry_run"
UniqueNameOverwrite(o, category_dir, src_path, dst_path, counter) == dst_path
RECURSIVE UniqueName(_, _, _, _, _)
UniqueName(o, category_dir, src_path, dst_path, counter) ==
    IF ExistsIn(o, dst_path)
    THEN UniqueName(o, category_dir, src_path,
                    Join(category_dir,
                         [stem |-> src_path.name.stem \o "_" \o ToString(counter),
                          suffix |-> src_path.name.suffix]),
                    counter + 1)
    ELSE dst_path

\* the branch for a source that no longer exists
SourceMissingUncounted(o) ==
    [o EXCEPT !.errors = Append(@, "Arquivo fonte nao encontrado")]
SourceMissing(o) ==
    [o EXCEPT !.errors = Append(@, "Arquivo fonte nao encontrado"),
              !.ops.failed_operations = @ + 1]

\* the dry-run branch: the operation is only reported
DryRunTouches(o, src_path, dst_path) ==
    [o EXCEPT !.ops.successful_operations = @ + 1,
              !.files = WriteFile(@, Resolve(dst_path), o.files[Resolve(src_path)])]
DryRunStep(o, src_path, dst_path) ==
    [o EXCEPT !.ops.successful_operations = @ + 1]

\* what the step for one record is recorded to have done
StepLog(o0, o1, category, i, file_info, dst_path, result) ==
    [category |-> category, index |-> i, record |-> file_info, dst |-> dst_path,
     result |-> result,
     errs |-> Len(o1.errors) - Len(o0.errors),
     failed |-> o1.ops.failed_operations - o0.ops.failed_operations,
     created |-> DOMAIN o1.files \ DOMAIN o0.files,
     before |-> o0.files]

\* the body of the loop over the records of one category
OrganizeFile(o, category, category_dir, i, file_info, copy_files, dry_run, env) ==
    LET src_path == file_info.path IN
    IF ~ExistsIn(o, src_path)
    THEN LET o1 == SourceMissing(o)
         IN  [o1 EXCEPT !.steps = Append(@, StepLog(o, o1, category, i, file_info,
                                                    src_path, "missing"))]
    ELSE LET first == Join(category_dir, src_path.name)
             dst_path == IF dry_run THEN first
                         ELSE UniqueName(o, category_dir, src_path, first, 1)
         IN  IF dry_run
             THEN LET o1 == DryRunStep(o, src_path, dst_path)
                  IN  [o1 EXCEPT !.steps = Append(@, StepLog(o, o1, category, i,
                                                   file_info, dst_path, "planned"))]
             ELSE LET r == _process_file(o, src_path, dst_path, copy_files, env)
                      o1 == IF r.success
                            THEN [r.o EXCEPT !.ops.successful_operations = @ + 1]
                            ELSE [r.o EXCEPT !.ops.failed_operations = @ + 1]
                  IN  [o1 EXCEPT !.steps = Append(@, StepLog(o, o1, category, i,
                                     file_info, dst_path,
                                     IF r.success THEN "ok" ELSE "failed"))]

RECURSIVE OrganizeFilesOf(_, _, _, _, _, _, _, _)
OrganizeFilesOf(o, category, category_dir, i, records, copy_files, dry_run, env) ==
    IF i > Len(records) THEN o
    ELSE OrganizeFilesOf(
           OrganizeFile(o, category, category_dir, i, records[i], copy_files,
                        dry_run, env),
           category, category_dir, i + 1, records, copy_files, dry_run, env)

\* a category whose destination directory cannot be created
MkdirFailed(o, category, records, category_dir, env) ==
    [o EXCEPT !.errors = Append(@, IF env.mkdirError = "PermissionError"
                                   THEN "Erro de permissao ao criar diretorio"
                                   ELSE "Erro do sistema ao criar diretorio"),
              !.cats = Append(@, [category |-> category, dir |-> category_dir,
                                  mkdir |-> "failed"])]

\* the body of the loop over the categories
OrganizeCategory(o, category, records, base_path, flatten, copy_files, dry_run, env) ==
    IF records = <<>> THEN o
    ELSE LET category_dir == IF flatten THEN base_path
                             ELSE SubDir(base_path, category)
         IN  IF dry_run
             THEN OrganizeFilesOf(
                    [o EXCEPT !.cats = Append(@, [category |-> category,
                                                  dir |-> category_dir,
                                                  mkdir |-> "dry"])],
                    category, category_dir, 1, records, copy_files, dry_run, env)
             ELSE IF category_dir \notin o.dirs /\ category_dir \in env.mkdirDirs
             THEN MkdirFailed(o, category, records, category_dir, env)
             ELSE OrganizeFilesOf(
                    [o EXCEPT !.dirs = @ \cup WithParents(category_dir),
                              !.cats = Append(@, [category |-> category,
                                                  dir |-> category_dir,
                                                  mkdir |-> "ok"])],
                    category, category_dir, 1, records, copy_files, dry_run, env)

RECURSIVE OrganizeCategories(_, _, _, _, _, _, _)
OrganizeCategories(o, keys, base_path, flatten, copy_files, dry_run, env) ==
    IF keys = <<>> THEN o
    ELSE OrganizeCategories(
           OrganizeCategory(o, Head(keys), o.catalog[Head(keys)], base_path, flatten,
                            copy_files, dry_run, env),
           Tail(keys), base_path, flatten, copy_files, dry_run, env)

NoDir == [anchor |-> "<None>", parts |-> <<>>, name |-> NoName]

\* the categories the call processes: every key of the catalog, or the one
\* the filter names; the call returns at once when the filter is not recognised
FilterUnchecked(o, file_type_filter) ==
    IF file_type_filter = NoFilter \/ file_type_filter = ""
       \/ Lower(file_type_filter) \notin CategoryNames
    THEN [abort |-> FALSE, keys |-> o.catKeys]
    ELSE [abort |-> FALSE, keys |-> <<Lower(file_type_filter)>>]
CategoriesToProcess(o, file_type_filter) ==
    IF file_type_filter = NoFilter \/ file_type_filter = ""
    THEN [abort |-> FALSE, keys |-> o.catKeys]
    ELSE IF Lower(file_type_filter) \in CategoryNames
         THEN [abort |-> FALSE, keys |-> <<Lower(file_type_filter)>>]
         ELSE [abort |-> TRUE, keys |-> <<>>]

\* reading self.catalog[key] adds the key to the defaultdict
TouchKey(o, file_type_filter) ==
    IF file_type_filter # NoFilter /\ file_type_filter # ""
       /\ Lower(file_type_filter) \in CategoryNames
       /\ ~\E i \in 1..Len(o.catKeys) : o.catKeys[i] = Lower(file_type_filter)
    THEN [o EXCEPT !.catKeys = Append(@, Lower(file_type_filter))]
    ELSE o

organize_files(o, base_output_dir, copy_files, dry_run, file_type_filter, move_to_dir, env) ==
    LET o0 == [o EXCEPT !.ops = NoOperationStats]
        base_path == IF move_to_dir # NoDir THEN move_to_dir ELSE base_output_dir
        sel == CategoriesToProcess(o0, file_type_filter)
    IN  IF sel.abort
        THEN [o0 EXCEPT !.aborted = TRUE]
        ELSE OrganizeCategories(TouchKey(o0, file_type_filter), sel.keys, base_path,
                                move_to_dir # NoDir, copy_files, dry_run, env)

----------------------------------------------------------------------------
(* The run of main(): one scan of the volumes given, then organize_files *)

MainVolumes == {<<Root>>, <<RelA>>, <<Root, RelA>>, <<Missing>>}

MainScan ==
    /\ count.scan = 0 /\ count.org = 0
    /\ \E volume_paths \in MainVolumes :
         Scanned(scan_multiple_volumes(ScanState, volume_paths, FALSE, NoDepth,
                                       NoFilter, ScanEnvOk),
                 FALSE, NoDepth, NoFilter, ScanEnvOk)

\* a catalogued source file is deleted by someone else between scan and organize
ExternalDelete ==
    /\ count.org = 0
    /\ \E i \in 1..Len(RecordsOfCatalog) :
         LET f == Resolve(RecordsOfCatalog[i].path) IN
         /\ f \in DOMAIN files
         /\ files' = RemoveFile(files, f)
    /\ UNCHANGED <<dirs, exclude_paths, catalog, catKeys, stats, errors,
                   folders_with_files, operation_stats, lastScan, lastOrg, count>>
    /\ UNCHANGED <<call, descompactarVars>>

OrgFilters == {NoFilter, "FOTOS", "bogus"}
OrgEnvs == {OrgEnvOk,
            [OrgEnvOk EXCEPT !.mkdirDirs = {SubDir(Dest, "fotos")},
                             !.mkdirError = "PermissionError"],
            [OrgEnvOk EXCEPT !.mkdirDirs = {Flat}, !.mkdirError = "OSError"],
            [OrgEnvOk EXCEPT !.noWrite = {DirB, SubDir(Dest, "documents")}],
            [OrgEnvOk EXCEPT !.ioFiles = {FileA}, !.ioError = "ENOSPC"]}

OrgState ==
    [files |-> files, dirs |-> dirs, errors |-> errors, ops |-> operation_stats,
     catalog |-> catalog, catKeys |-> catKeys,
     steps |-> <<>>, cats |-> <<>>, aborted |-> FALSE]

OrganizeFiles ==
    /\ count.org < MaxOrganize
    /\ \E move_to_dir \in {NoDir, Flat}, copy_files \in BOOLEAN, dry_run \in BOOLEAN,
          file_type_filter \in OrgFilters, env \in OrgEnvs :
         /\ dry_run => env = OrgEnvOk
         /\ LET o == organize_files(OrgState, Dest, copy_files, dry_run,
                                    file_type_filter, move_to_dir, env)
            IN  /\ files' = o.files
                /\ dirs' = o.dirs
                /\ errors' = o.errors
                /\ operation_stats' = o.ops
                /\ catKeys' = o.catKeys
                /\ lastOrg' = [kind |-> "organize", copy_files |-> copy_files,
                               dry_run |-> dry_run,
                               file_type_filter |-> file_type_filter,
                               move_to_dir |-> move_to_dir, env |-> env,
                               files |-> files, dirs |-> dirs, errors |-> errors,
                               steps |-> o.steps, cats |-> o.cats,
                               aborted |-> o.aborted]
    /\ count' = [count EXCEPT !.org = @ + 1]
    /\ UNCHANGED <<exclude_paths, catalog, stats, folders_with_files, lastScan>>
    /\ UNCHANGED <<call, descompactarVars>>

\* The reporters.  They read the catalog, the stats and the error log and
\* write a report to standard output or to a file outside the volumes of the
\* model; the write is taken to succeed.  main() calls them after the scan
\* and before organize_files.
Reporting == count.scan >= 1 /\ count.org = 0

\* self.catalog[key] on the defaultdict: reading a key that is absent adds it
ReadKey(keys, key) ==
    IF \E i \in 1..Len(keys) : keys[i] = key THEN keys ELSE Append(keys, key)

SummaryOrder == <<"fotos", "musicas", "filmes", "ebooks", "documents", "outros">>

\* the loop of print_summary: self.catalog[category] is read when the
\* category's counter is positive
RECURSIVE SummaryKeys(_, _, _)
SummaryKeys(keys, st, order) ==
    IF order = <<>> THEN keys
    ELSE SummaryKeys(IF st[Head(order)] > 0 THEN ReadKey(keys, Head(order)) ELSE keys,
                     st, Tail(order))

\* the keys of self.catalog after print_summary
print_summary(keys, st) == SummaryKeys(keys, st, SummaryOrder)

PrintSummary ==
    /\ Reporting
    /\ catKeys' = print_summary(catKeys, stats)
    /\ UNCHANGED <<files, dirs, exclude_paths, catalog, stats, errors,
                   folders_with_files, operation_stats, lastScan, lastOrg, count>>
    /\ UNCHANGED <<call, descompactarVars>>

\* save_catalog: dict(self.stats), dict(self.catalog) and self.errors are dumped
SaveCatalog == Reporting /\ UNCHANGED vars

\* save_catalog_csv: one row per record of self.catalog.items()
SaveCatalogCsv == Reporting /\ UNCHANGED vars

\* save_catalog_excel: one row per record of self.catalog.items()
SaveCatalogExcel == Reporting /\ UNCHANGED vars

\* save_folders_list: sorted(self.folders_with_files) is written
SaveFoldersList == Reporting /\ UNCHANGED vars

Next ==
    \/ MainScan
    \/ ExternalDelete
    \/ OrganizeFiles
    \/ PrintSummary
    \/ SaveCatalog
    \/ SaveCatalogCsv
    \/ SaveCatalogExcel
    \/ SaveFoldersList

Spec == Init /\ [][Next]_vars

----------------------------------------------------------------------------
(* Notions the claims are stated in *)

\* all records of the catalog, category by category
AllRecords == RecordsIn(catalog, CategoryOrder)

RECURSIVE SumSizes(_)
SumSizes(records) ==
    IF records = <<>> THEN 0 ELSE Head(records).size + SumSizes(Tail(records))

RECURSIVE SumCounters(_)
SumCounters(keys) ==
    IF keys = <<>> THEN 0 ELSE stats[Head(keys)] + SumCounters(Tail(keys))

\* p is an excluded path or lies below one
UnderExcluded(p) ==
    \E x \in exclude_paths :
        \/ Resolve(p) = x
        \/ /\ IsDirPath(x)
           /\ Resolve(p).anchor = x.anchor
           /\ IsPrefix(x.parts, Resolve(p).parts)

\* p lies strictly below an excluded directory
BelowExcludedDir(p) ==
    \E x \in exclude_paths :
        /\ IsDirPath(x)
        /\ Resolve(p) # x
        /\ Resolve(p).anchor = x.anchor
        /\ IsPrefix(x.parts, Resolve(p).parts)

ScanLog == IF lastScan.kind = "scan" THEN lastScan.log ELSE <<>>

\* the files on disk at most d levels below directory
FilesWithin(directory, d) ==
    {g \in DOMAIN files :
        /\ g.anchor = Resolve(directory).anchor
        /\ IsPrefix(Resolve(directory).parts, g.parts)
        /\ Len(g.parts) - Len(Resolve(directory).parts) <= d}
FilesBelow(directory) ==
    {g \in DOMAIN files :
        /\ g.anchor = Resolve(directory).anchor
        /\ IsPrefix(Resolve(directory).parts, g.parts)}

AddedPaths(entry) == {Resolve(entry.added[i].path) : i \in 1..Len(entry.added)}

----------------------------------------------------------------------------
(* C1: after any sequence of scan calls, stats['total_files'] is the sum of  *)
(* the per-category counters, each per-category counter is the length of    *)
(* that category's sequence in the catalog, and stats['total_size'] is the  *)
(* sum of the sizes of all records of the catalog.                          *)
C1_StatsMatchCatalog ==
    /\ stats["total_files"] = SumCounters(CategoryOrder)
    /\ \A c \in CategoryNames : stats[c] = Len(catalog[c])
    /\ stats["total_size"] = SumSizes(AllRecords)

\* a scan that catalogued files of two categories and met a stat() failure
C1_Witness ==
    /\ lastScan.kind = "scan"
    /\ Len(catKeys) >= 2
    /\ stats["total_files"] >= 3
    /\ errors # <<>>

(* C4: after any scan the catalog holds no record whose path is an excluded *)
(* path or lies below one.                                                  *)
C4_NoExcludedRecord ==
    \A i \in 1..Len(AllRecords) : ~UnderExcluded(AllRecords[i].path)

\* a scan that met files below an excluded directory and catalogued others
C4_Witness ==
    /\ exclude_paths # {}
    /\ AllRecords # <<>>
    /\ \E i \in 1..Len(ScanLog) : \E p \in ScanLog[i].tested :
          IsFile(p) /\ UnderExcluded(p)

(* C5: during every scan, with max_depth set or unset, nothing strictly     *)
(* below an excluded directory is visited: no such directory is listed and  *)
(* no such path is tested by the scanner.                                   *)
C5_NeverVisitsExcluded ==
    \A i \in 1..Len(ScanLog) :
        \A p \in ScanLog[i].tested \cup ScanLog[i].listed : ~BelowExcludedDir(p)

(* C10: with max_depth = d a scan of a root catalogs exactly the            *)
(* non-excluded files whose directory is at most d levels below the root;   *)
(* with max_depth unset it catalogs the non-excluded files at every depth.  *)
(* Stated for calls with no type filter and no stat() failure.              *)
C10_DepthExact ==
    lastScan.kind = "scan" /\ lastScan.file_type_filter = NoFilter
    /\ lastScan.env.statFail = {}
    => \A i \in 1..Len(ScanLog) :
          LET directory == ScanLog[i].directory IN
          Exists(directory) =>
            AddedPaths(ScanLog[i]) =
              {g \in (IF lastScan.max_depth = NoDepth THEN FilesBelow(directory)
                      ELSE FilesWithin(directory, lastScan.max_depth[1])) :
                 ~UnderExcluded(g)}

----------------------------------------------------------------------------
(* Notions the organizer's claims are stated in *)

Organized == lastOrg.kind = "organize"
Steps == IF Organized THEN lastOrg.steps ELSE <<>>
Cats == IF Organized THEN lastOrg.cats ELSE <<>>
RealRun == Organized /\ ~lastOrg.dry_run /\ ~lastOrg.aborted

DestFiles(f) == {x \in DOMAIN f : x.anchor = "D:"}
SourceFiles(f) == {x \in DOMAIN f : x.anchor = "/"}

\* stem_k + extension in directory d
Numbered(d, name, k) ==
    Join(d, [stem |-> name.stem \o "_" \o ToString(k), suffix |-> name.suffix])

\* the categories the last call had to process, in order
Processed ==
    IF ~Organized \/ lastOrg.aborted THEN <<>>
    ELSE IF lastOrg.file_type_filter = NoFilter THEN catKeys
    ELSE <<Lower(lastOrg.file_type_filter)>>

RECURSIVE CountRecords(_)
CountRecords(keys) ==
    IF keys = <<>> THEN 0 ELSE Len(catalog[Head(keys)]) + CountRecords(Tail(keys))

HasStep(category, i) ==
    \E n \in 1..Len(Steps) : Steps[n].category = category /\ Steps[n].index = i

----------------------------------------------------------------------------
(* C2: organize_files with dry_run=True leaves the file system as it was:   *)
(* no directory is created, no file is created, copied, moved or deleted.   *)
C2_DryRunTouchesNothing ==
    Organized /\ lastOrg.dry_run => files = lastOrg.files /\ dirs = lastOrg.dirs

\* a dry run in move mode that planned operations into a directory that does
\* not exist
C2_Witness ==
    /\ Organized /\ lastOrg.dry_run /\ ~lastOrg.copy_files
    /\ Len(Steps) >= 3
    /\ \E n \in 1..Len(Steps) :
          Steps[n].result = "planned" /\ Parent(Steps[n].dst) \notin dirs

(* C3: in real mode, when the destination path exists the name chosen is    *)
(* stem_k+extension for the smallest k >= 1 that does not exist; no file    *)
(* that was in the destination is overwritten or removed, and every         *)
(* relocated file keeps the content of its own source.                      *)
C3_UniqueNames ==
    RealRun =>
      /\ \A n \in 1..Len(Steps) :
           LET st == Steps[n]
               d == Parent(st.dst)
               first == Join(d, st.record.name)
           IN  st.result \in {"ok", "failed"} =>
                 /\ st.dst \notin DOMAIN st.before
                 /\ \/ st.dst = first
                    \/ /\ first \in DOMAIN st.before
                       /\ \E k \in 1..(Len(Steps) + Cardinality(DOMAIN lastOrg.files)) :
                            /\ st.dst = Numbered(d, st.record.name, k)
                            /\ \A j \in 1..(k - 1) :
                                 Numbered(d, st.record.name, j) \in DOMAIN st.before
                 /\ st.result = "ok" =>
                      /\ st.dst \in DOMAIN files
                      /\ files[st.dst] = st.before[Resolve(st.record.path)]
      /\ \A f \in DestFiles(lastOrg.files) :
           f \in DOMAIN files /\ files[f] = lastOrg.files[f]

\* two files of the same name were put in one directory, the second as name_1
C3_Witness ==
    /\ RealRun
    /\ \E m, n \in 1..Len(Steps) :
          /\ m < n
          /\ Steps[m].result = "ok" /\ Steps[n].result = "ok"
          /\ Resolve(Steps[m].record.path) # Resolve(Steps[n].record.path)
          /\ Steps[m].dst = Join(Parent(Steps[m].dst), Steps[m].record.name)
          /\ Steps[n].dst = Numbered(Parent(Steps[m].dst), Steps[m].record.name, 1)
          /\ files[Steps[m].dst] # files[Steps[n].dst]

(* C6: after a real run without a flatten destination, every record counted *)
(* as successful has a file at destinationRoot/category/name (or its        *)
(* numbered name) with the source's content; its source still exists iff    *)
(* copy_files; and no source file other than the moved ones is removed.     *)
C6_CopyKeepsMoveRemoves ==
    RealRun /\ lastOrg.move_to_dir = NoDir =>
      /\ \A n \in 1..Len(Steps) :
           LET st == Steps[n] IN
           st.result = "ok" =>
             /\ Parent(st.dst) = SubDir(Dest, st.record.category)
             /\ st.dst.name.suffix = st.record.name.suffix
             /\ st.dst \in DOMAIN files
             /\ files[st.dst] = st.before[Resolve(st.record.path)]
             /\ (Resolve(st.record.path) \in DOMAIN files) <=> lastOrg.copy_files
      /\ \A f \in SourceFiles(lastOrg.files) :
           f \notin DOMAIN files =>
             /\ ~lastOrg.copy_files
             /\ \E n \in 1..Len(Steps) :
                  Steps[n].result = "ok" /\ Resolve(Steps[n].record.path) = f

\* a real move into category folders that relocated files of two categories
C6_Witness ==
    /\ RealRun /\ lastOrg.move_to_dir = NoDir /\ ~lastOrg.copy_files
    /\ \E m, n \in 1..Len(Steps) :
          /\ Steps[m].result = "ok" /\ Steps[n].result = "ok"
          /\ Steps[m].category # Steps[n].category

(* C7: a record whose source no longer exists adds exactly one error and    *)
(* one failed operation, creates no file, and does not stop the call: every *)
(* later record of its category has its step and every later non-empty     *)
(* category is visited.                                                     *)
C7_MissingSource ==
    Organized =>
      \A n \in 1..Len(Steps) :
        LET st == Steps[n] IN
        st.result = "missing" =>
          /\ st.errs = 1
          /\ st.failed = 1
          /\ st.created = {}
          /\ operation_stats.failed_operations >= 1
          /\ \A j \in (st.index + 1)..Len(catalog[st.category]) :
               HasStep(st.category, j)
          /\ \A a, b \in 1..Len(Processed) :
               (a < b /\ Processed[a] = st.category /\ catalog[Processed[b]] # <<>>)
               => \E c \in 1..Len(Cats) : Cats[c].category = Processed[b]

\* a source was missing and a later record was still relocated
C7_Witness ==
    /\ RealRun
    /\ \E m, n \in 1..Len(Steps) :
          m < n /\ Steps[m].result = "missing" /\ Steps[n].result = "ok"

(* C8: when a category's destination directory cannot be created, its files *)
(* are counted as failed or skipped, so that successful + failed + skipped  *)
(* is the number of records of the processed categories.                    *)
C8_EveryRecordCounted ==
    RealRun =>
      operation_stats.successful_operations + operation_stats.failed_operations
        + operation_stats.skipped_operations = CountRecords(Processed)

(* C9: a type filter that names no category makes the call return without   *)
(* touching the file system, the three counters zero; a filter that names a *)
(* category restricts the call to the records of that category.             *)
C9_FilterRestricts ==
    Organized =>
      /\ lastOrg.file_type_filter \notin {NoFilter, ""}
         /\ Lower(lastOrg.file_type_filter) \notin CategoryNames
         => /\ files = lastOrg.files /\ dirs = lastOrg.dirs
            /\ operation_stats = NoOperationStats
            /\ Steps = <<>>
      /\ lastOrg.file_type_filter \notin {NoFilter, ""}
         /\ Lower(lastOrg.file_type_filter) \in CategoryNames
         => /\ \A n \in 1..Len(Steps) :
                 Steps[n].category = Lower(lastOrg.file_type_filter)
            /\ \A i \in 1..Len(AllRecords) :
                 LET r == AllRecords[i] IN
                 r.category # Lower(lastOrg.file_type_filter)
                 /\ Resolve(r.path) \in DOMAIN lastOrg.files
                 => /\ Resolve(r.path) \in DOMAIN files
                    /\ files[Resolve(r.path)] = lastOrg.files[Resolve(r.path)]

\* a real call with an unknown filter on a catalog that holds records
C9_Witness ==
    /\ Organized /\ ~lastOrg.dry_run /\ lastOrg.aborted
    /\ lastOrg.file_type_filter = "bogus"
    /\ Len(AllRecords) >= 3

----------------------------------------------------------------------------
(* Calls of categorize_file on its own *)

\* the upper-case letter of each lower-case letter
UpperOf ==
    [c \in {SubSeq(LowerCase, i, i) : i \in 1..Len(LowerCase)} |->
        LET i == CHOOSE j \in 1..Len(LowerCase) : SubSeq(LowerCase, j, j) = c
        IN  SubSeq(UpperCase, i, i)]

UpperChar(c) == IF c \in DOMAIN UpperOf THEN UpperOf[c] ELSE c

\* every way of writing s in upper-case and lower-case letters
RECURSIVE Spellings(_)
Spellings(s) ==
    IF s = "" THEN {""}
    ELSE {c \o rest : c \in {LowerChar(SubSeq(s, 1, 1)), UpperChar(SubSeq(s, 1, 1))},
                      rest \in Spellings(SubSeq(s, 2, Len(s)))}

ConfiguredExtensions == UNION {categories[c] : c \in CategoryNames}

\* extensions that no category is configured with; "" is a name without one
OtherExtensions == {"", ".zip", ".rar", ".exe", ".jpgx", ".jp", ".mp", ".7z", ".py"}

\* the file names the extension is put on
CategorizeStems == {"p", "jpg"}

CategorizeFile ==
    /\ call = NoCall
    /\ \E extension \in ConfiguredExtensions \cup OtherExtensions,
          stem \in CategorizeStems :
         \E suffix \in Spellings(extension) :
           LET file_path == File("/", <<"a">>, stem, suffix)
           IN  call' = [kind |-> "categorize_file", extension |-> extension,
                        file_path |-> file_path,
                        result |-> categorize_file(file_path)]
    /\ UNCHANGED <<catalogerVars, descompactarVars>>

NextCategorize == CategorizeFile

SpecCategorize == Init /\ [][NextCategorize]_vars

\* categorize_file with the categories tried in the given order
RECURSIVE FirstCategoryIn(_, _, _)
FirstCategoryIn(order, extension, i) ==
    IF i > Len(order) THEN "outros"
    ELSE IF extension \in categories[order[i]] THEN order[i]
    ELSE FirstCategoryIn(order, extension, i + 1)

\* every order of the categories
CategoryOrders ==
    {[i \in 1..Len(CategoryOrder) |-> CategoryOrder[p[i]]] :
        p \in Permutations(1..Len(CategoryOrder))}

(* C11: categorize_file returns the category in whose configured set the    *)
(* extension is, however the extension is spelled in upper and lower case;  *)
(* it returns 'outros' for an extension in no set, the empty one included;  *)
(* the configured sets are pairwise disjoint, so trying the categories in   *)
(* any other order gives the same result.                                   *)
C11_CategorizeByExtension ==
    /\ \A c1, c2 \in CategoryNames : c1 # c2 => categories[c1] \cap categories[c2] = {}
    /\ call.kind = "categorize_file" =>
         /\ \A c \in CategoryNames :
              call.extension \in categories[c] => call.result = c
         /\ call.extension \notin ConfiguredExtensions => call.result = "outros"
         /\ \A order \in CategoryOrders :
              FirstCategoryIn(order, Lower(call.file_path.name.suffix), 1) = call.result

\* a configured extension written in mixed case was given its category
C11_Witness ==
    /\ call.kind = "categorize_file"
    /\ call.file_path.name.suffix = ".JpEg"
    /\ call.result = "fotos"

----------------------------------------------------------------------------
(* Notions the scanner's later claims are stated in *)

\* the last scan was given a type filter that names a configured category
ScanFilterNames(c) ==
    /\ lastScan.kind = "scan"
    /\ lastScan.file_type_filter # NoFilter
    /\ Lower(lastScan.file_type_filter) = c
    /\ c \in CategoryNames

\* the regular files the scan of one root met that are not excluded and pass
\* the type filter as it is described: extension in the filter category's set
FilterAdmits(file_path) ==
    \/ lastScan.file_type_filter = NoFilter
    \/ Lower(lastScan.file_type_filter) \notin CategoryNames
    \/ Lower(file_path.name.suffix) \in categories[Lower(lastScan.file_type_filter)]

Candidates(entry) ==
    {file_path \in entry.tested :
        IsFile(file_path) /\ ~UnderExcluded(file_path) /\ FilterAdmits(file_path)}

AddedRecord(entry, file_path) ==
    \E k \in 1..Len(entry.added) : entry.added[k].path = file_path

(* C12: a scan with a type filter that names a configured category, the     *)
(* fallback category 'outros' with its empty set included, adds only        *)
(* records whose lower-case extension is in that category's set, and every  *)
(* record it adds carries the category categorize_file gives its path.      *)
C12_ScanFilterRestricts ==
    \A c \in CategoryNames :
        ScanFilterNames(c) =>
          \A i \in 1..Len(ScanLog) : \A k \in 1..Len(ScanLog[i].added) :
              LET r == ScanLog[i].added[k] IN
              /\ r.extension \in categories[c]
              /\ r.category = categorize_file(r.path)

(* C13: a root that does not exist adds one error for that root, adds       *)
(* nothing to the catalog or the stats, and every later root is still       *)
(* scanned.                                                                 *)
C13_MissingRootLogged ==
    \A i \in 1..Len(ScanLog) :
        ~Exists(ScanLog[i].directory) =>
          /\ ScanLog[i].errs = 1
          /\ ScanLog[i].added = <<>>
          /\ \A j \in (i + 1)..Len(ScanLog) :
               Exists(ScanLog[j].directory) =>
                 \A g \in Candidates(ScanLog[j]) :
                     Resolve(g) \notin lastScan.env.statFail
                     => AddedRecord(ScanLog[j], g)

(* C14: when hashing is requested and fails for a file, the failure is      *)
(* logged and the file is cataloged with its hash absent; when collecting   *)
(* the metadata fails, an error is logged and the file is not cataloged;    *)
(* in both cases the other files of the root are still cataloged.  Stated   *)
(* for scans without a type filter.                                         *)
C14_HashFailureLogged ==
    lastScan.kind = "scan" /\ lastScan.file_type_filter = NoFilter =>
      \A i \in 1..Len(ScanLog) :
        LET entry == ScanLog[i]
            hashFailed == {g \in Candidates(entry) :
                             /\ lastScan.include_hash
                             /\ Resolve(g) \in lastScan.env.hashFail
                             /\ Resolve(g) \notin lastScan.env.statFail}
            statFailed == {g \in Candidates(entry) :
                             Resolve(g) \in lastScan.env.statFail}
        IN  /\ entry.errs = Cardinality(hashFailed) + Cardinality(statFailed)
            /\ \A g \in hashFailed :
                 \E k \in 1..Len(entry.added) :
                     entry.added[k].path = g /\ entry.added[k].hash = "None"
            /\ \A g \in statFailed : ~AddedRecord(entry, g)
            /\ \A g \in Candidates(entry) \ statFailed : AddedRecord(entry, g)

----------------------------------------------------------------------------
(* C15: after organize_files with dry_run=True, successful_operations is    *)
(* the number of records of the processed categories and failed_operations  *)
(* and skipped_operations are zero, whatever the state of the source and    *)
(* destination paths.                                                       *)
C15_DryRunAllSuccessful ==
    Organized /\ lastOrg.dry_run /\ ~lastOrg.aborted =>
      /\ operation_stats.successful_operations = CountRecords(Processed)
      /\ operation_stats.failed_operations = 0
      /\ operation_stats.skipped_operations = 0

----------------------------------------------------------------------------
(* src/descompactar.py: descompactar_arquivos(pasta_raiz)                   *)
(*                                                                         *)
(* A directory is the sequence of its components below pasta_raiz.  Each   *)
(* subprocess.run is a step of its own: the unarchiver is another process, *)
(* and what it writes is seen by the os.listdir and os.walk calls after it. *)

\* the largest number of files in a directory when the call starts
MaxArquivos == 2

PastaRaiz == <<>>
SubPasta == <<"sub">>

\* the files an archive holds: the directory inside the archive and the name
Contents(arquivo) ==
    CASE arquivo = "a.zip" -> {[dir |-> <<>>, name |-> "x.txt"]}
      [] arquivo = "n.zip" -> {[dir |-> <<>>, name |-> "i.zip"],
                               [dir |-> <<"sub">>, name |-> "j.rar"]}
      [] arquivo = "b.rar" -> {[dir |-> <<>>, name |-> "k.zip"]}
      [] arquivo = "c.rar" -> {[dir |-> <<>>, name |-> "y.txt"]}
      [] OTHER -> {}

\* the names a directory may hold when the call starts
ArquivoNames == {"a.zip", "n.zip", "b.rar", "c.rar", "D.ZIP"}

Listings == {S \in SUBSET ArquivoNames : Cardinality(S) <= MaxArquivos}

\* the order in which the operating system lists a set of names
Orderings(S) ==
    {order \in [1..Cardinality(S) -> S] :
        \A i, j \in 1..Cardinality(S) : i # j => order[i] # order[j]}

\* the subdirectories of d
SubPastas(ps, d) == {x \in DOMAIN ps : Len(x) = Len(d) + 1 /\ IsPrefix(d, x)}

\* "winrar x -o+ arquivo pasta": the archive's files are written below pasta
Extract(ps, pasta, arquivo) ==
    LET made == {pasta \o e.dir : e \in Contents(arquivo)}
    IN  [d \in DOMAIN ps \cup made |->
            (IF d \in DOMAIN ps THEN ps[d] ELSE {})
            \cup {e.name : e \in {x \in Contents(arquivo) : pasta \o x.dir = d}}]

\* "not any(f.endswith('.zip') for f in os.listdir(pasta_atual))"
RarAlways(ps, pasta_atual) == TRUE
NoZipListed(ps, pasta_atual) == ~\E f \in ps[pasta_atual] : EndsWith(f, ".zip")

\* the branch the loop body takes for arquivo
Branch(ps, pasta_atual, arquivo) ==
    IF EndsWith(arquivo, ".zip") THEN "zip"
    ELSE IF EndsWith(arquivo, ".rar") /\ NoZipListed(ps, pasta_atual) THEN "rar"
    ELSE "none"

\* descompactar_arquivos(pasta_raiz) has just been called on some tree
InitDescompactar ==
    /\ Constructed({})
    /\ call = NoCall
    /\ \E raiz \in Listings, sub \in Listings :
         pastas = (PastaRaiz :> raiz) @@ (SubPasta :> sub)
    /\ walk = [state |-> "walking", stack |-> <<PastaRaiz>>,
               pasta_atual |-> PastaRaiz, arquivos |-> <<>>]
    /\ runs = <<>>
    /\ walked = <<>>

\* os.walk gives the next directory: its files and subdirectories are listed now
NextPasta ==
    /\ walk.state = "walking" /\ walk.arquivos = <<>> /\ walk.stack # <<>>
    /\ LET d == Head(walk.stack) IN
       \E arquivos \in Orderings(pastas[d]), subs \in Orderings(SubPastas(pastas, d)) :
         /\ walk' = [walk EXCEPT !.stack = subs \o Tail(@),
                                 !.pasta_atual = d,
                                 !.arquivos = arquivos]
         /\ walked' = Append(walked, [pasta |-> d, arquivos |-> arquivos])
    /\ UNCHANGED <<catalogerVars, call, pastas, runs>>

\* subprocess.run(["winrar", "x", "-o+", caminho_completo, pasta_atual]); the
\* unarchiver extracts the archive or fails, and its exit status is not read
Run(kind) ==
    /\ walk.state = "walking" /\ walk.arquivos # <<>>
    /\ Branch(pastas, walk.pasta_atual, Head(walk.arquivos)) = kind
    /\ runs' = Append(runs, [pasta |-> walk.pasta_atual,
                             arquivo |-> Head(walk.arquivos),
                             listdir |-> pastas[walk.pasta_atual]])
    /\ \E extracted \in BOOLEAN :
         pastas' = IF extracted
                   THEN Extract(pastas, walk.pasta_atual, Head(walk.arquivos))
                   ELSE pastas
    /\ walk' = [walk EXCEPT !.arquivos = Tail(@)]
    /\ UNCHANGED <<catalogerVars, call, walked>>

ExtractZip == Run("zip")
ExtractRar == Run("rar")

\* subprocess.run raises because the unarchiver cannot be started: the
\* exception is not caught and ends descompactar_arquivos
RunRaises ==
    /\ walk.state = "walking" /\ walk.arquivos # <<>>
    /\ Branch(pastas, walk.pasta_atual, Head(walk.arquivos)) # "none"
    /\ walk' = [walk EXCEPT !.state = "raised"]
    /\ UNCHANGED <<catalogerVars, call, pastas, runs, walked>>

\* neither branch is taken for this arquivo
SkipArquivo ==
    /\ walk.state = "walking" /\ walk.arquivos # <<>>
    /\ Branch(pastas, walk.pasta_atual, Head(walk.arquivos)) = "none"
    /\ walk' = [walk EXCEPT !.arquivos = Tail(@)]
    /\ UNCHANGED <<catalogerVars, call, pastas, runs, walked>>

\* os.walk is exhausted: descompactar_arquivos returns
Return ==
    /\ walk.state = "walking" /\ walk.arquivos = <<>> /\ walk.stack = <<>>
    /\ walk' = [walk EXCEPT !.state = "done"]
    /\ UNCHANGED <<catalogerVars, call, pastas, runs, walked>>

NextDescompactar ==
    NextPasta \/ ExtractZip \/ ExtractRar \/ RunRaises \/ SkipArquivo \/ Return

SpecDescompactar == InitDescompactar /\ [][NextDescompactar]_vars

\* the arquivos of walked[j] the loop has been through
Consumed(j) ==
    IF j < Len(walked) \/ walk.state = "done" THEN walked[j].arquivos
    ELSE SubSeq(walked[j].arquivos, 1,
                Len(walked[j].arquivos) - Len(walk.arquivos))

RunsOf(pasta, arquivo) ==
    {i \in 1..Len(runs) : runs[i].pasta = pasta /\ runs[i].arquivo = arquivo}

\* the .zip files in the directory at the moment of runs[i] that the
\* unarchiver has not been run on
UnprocessedZips(i) ==
    {f \in runs[i].listdir :
        /\ EndsWith(f, ".zip")
        /\ \A k \in 1..(i - 1) : ~(runs[k].pasta = runs[i].pasta /\ runs[k].arquivo = f)}

(* C16: in each directory the unarchiver is run once for every .zip file    *)
(* listed that the loop has come to (all of them when the call returns), it *)
(* is run for a .rar file only if no .zip file of the directory is          *)
(* unprocessed at that moment, and in no directory is a .rar run before a   *)
(* .zip of that directory.                                                  *)
C16_ZipBeforeRar ==
    /\ \A j \in 1..Len(walked) : \A n \in 1..Len(walked[j].arquivos) :
          LET arquivo == walked[j].arquivos[n] IN
          EndsWith(arquivo, ".zip") =>
            Cardinality(RunsOf(walked[j].pasta, arquivo))
              = IF n <= Len(Consumed(j)) THEN 1 ELSE 0
    /\ \A i \in 1..Len(runs) :
          EndsWith(runs[i].arquivo, ".rar") => UnprocessedZips(i) = {}
    /\ \A i, j \in 1..Len(runs) :
          (i < j /\ runs[i].pasta = runs[j].pasta /\ EndsWith(runs[i].arquivo, ".rar"))
          => ~EndsWith(runs[j].arquivo, ".zip")

\* the call returned after running a .zip in one directory, where a .rar
\* listed before it was passed over, and a .rar in another directory
C16_Witness ==
    /\ walk.state = "done"
    /\ \E j \in 1..Len(walked) : \E m, n \in 1..Len(walked[j].arquivos) :
          /\ m < n
          /\ EndsWith(walked[j].arquivos[m], ".rar")
          /\ EndsWith(walked[j].arquivos[n], ".zip")
          /\ RunsOf(walked[j].pasta, walked[j].arquivos[m]) = {}
          /\ RunsOf(walked[j].pasta, walked[j].arquivos[n]) # {}
    /\ \E i \in 1..Len(runs) : EndsWith(runs[i].arquivo, ".rar")

----------------------------------------------------------------------------
(* C17: once a scan has completed, no reporter and no organize_files call   *)
(* adds, removes, reorders or changes a category entry or a record of the   *)
(* catalog, or changes a counter of the stats.                              *)
C17_CatalogReadOnly ==
    [][count.scan >= 1 /\ count'.scan = count.scan
       => catalog' = catalog /\ catKeys' = catKeys /\ stats' = stats]_vars

====
